---------------------------- MODULE Spec2Model ----------------------------
(***************************************************************************)
(* A model of the TCP service proxy of src/main.rs: the accept loop of     *)
(* ServiceProxy::start, the per-connection thread running                  *)
(* handle_connection, and the two forward_data threads of each session.    *)
(* The peers (the client and the target service) are the environment.      *)
(***************************************************************************)
EXTENDS Integers, Sequences, FiniteSets, TLC

(* ------------------------------ bounds -------------------------------- *)
\* number of inbound connections that may arrive in the listen scenario
MaxSessions == 2
\* bytes each peer may send in the listen scenario
MaxDataListen == 1
\* consecutive failed dial rounds the bridge-mode loop counts (it saturates)
MaxFails == 3
\* relay sessions the bridge-mode loop counts (it saturates)
MaxBridgeSessions == 2
\* bytes each peer may send in the single-session scenario
MaxData == 2
\* capacity of the read buffer of forward_data, scaled down from 8192
BufLen == 2

Sessions == 1..MaxSessions
Dirs == {"c2t", "t2c"}
Conns == {"client", "target"}
\* the byte values the peers send: 'Q' (0x51, valid UTF-8, annotated as a
\* query) and 0xFF (never valid UTF-8, not annotated)
Byte == {81, 255}

(* ---------------------------- connections ----------------------------- *)
\* forward_data(from, to, direction): the connection each direction reads
Src(d) == IF d = "c2t" THEN "client" ELSE "target"
\* forward_data(from, to, direction): the connection each direction writes
Dst(d) == IF d = "c2t" THEN "target" ELSE "client"
\* the direction label passed to forward_data
Label(d) == IF d = "c2t" THEN "Client -> Target" ELSE "Target -> Client"

Min(a, b) == IF a < b THEN a ELSE b
Prefix(s, t) == Len(s) <= Len(t) /\ s = SubSeq(t, 1, Len(s))

VARIABLES
    env,        \* the scenario and the two addresses, fixed for a behaviour
    lpc,        \* main and ServiceProxy::start: "main", "exit1", "bind",
                \* "incoming" or "failed"
    inbound,    \* per session: "none", "queued" (in the backlog), "accepted"
    hpc,        \* per session: where the handle_connection thread is
    hres,       \* per session: what handle_connection returned
    attempts,   \* per session: number of connect_timeout calls made
    handles,    \* per session and connection: open TcpStream handles
    peer,       \* per session and connection: "open", "fin" or "reset"
    sent,       \* per session and direction: bytes the source peer has sent
    rcvd,       \* per session and direction: bytes read from the source
    buf,        \* per session and direction: the unwritten rest of the chunk
    wr,         \* per session and direction: bytes written to the destination
    fpc,        \* per session and direction: where forward_data is
    fres,       \* per session and direction: what forward_data returned
    firstFail,  \* per session: the direction that failed first ("none" if none)
    log,        \* the set of lines handed to the logger
    bridge      \* the pairing loop of bridge mode ("off" in listen mode)

vars == <<env, bridge, lpc, inbound, hpc, hres, attempts, handles, peer, sent, rcvd,
          buf, wr, fpc, fres, firstFail, log>>

NoRes == [kind |-> "none", from |-> "-", err |-> "-"]
OkRes == [kind |-> "Ok", from |-> "-", err |-> "-"]
ErrRes(from, err) == [kind |-> "Err", from |-> from, err |-> err]

\* the two endpoints bridge mode dials
Ends == {"a", "b"}

\* the pairing loop of bridge mode: where it is, the connections of the
\* current dial round, which endpoints are reachable, and two counters
BridgeState(pc, conn, up, fails, sessions) ==
    [pc |-> pc, conn |-> conn, up |-> up, fails |-> fails, sessions |-> sessions]

NoConn == [e \in Ends |-> "none"]

\* the program does not run in bridge mode
BridgeOff == BridgeState("off", NoConn, [e \in Ends |-> FALSE], 0, 0)

Line(lvl, s, who, what) == [level |-> lvl, session |-> s, who |-> who, what |-> what]

(* --------------------------- classification --------------------------- *)
IsCont(b) == b >= 128 /\ b <= 191

\* std::str::from_utf8(data).is_ok(), on the bytes from position i on
RECURSIVE Utf8From(_, _)
Utf8From(data, i) ==
    IF i > Len(data) THEN TRUE
    ELSE LET b == data[i]
             c(k) == i + k <= Len(data) /\ IsCont(data[i + k])
             in2(lo, hi) == i + 1 <= Len(data) /\ data[i + 1] >= lo /\ data[i + 1] <= hi
         IN  IF b < 128 THEN Utf8From(data, i + 1)
             ELSE IF b >= 194 /\ b <= 223 THEN c(1) /\ Utf8From(data, i + 2)
             ELSE IF b = 224 THEN in2(160, 191) /\ c(2) /\ Utf8From(data, i + 3)
             ELSE IF b = 237 THEN in2(128, 159) /\ c(2) /\ Utf8From(data, i + 3)
             ELSE IF b >= 225 /\ b <= 239 THEN c(1) /\ c(2) /\ Utf8From(data, i + 3)
             ELSE IF b = 240 THEN in2(144, 191) /\ c(2) /\ c(3) /\ Utf8From(data, i + 4)
             ELSE IF b >= 241 /\ b <= 243 THEN c(1) /\ c(2) /\ c(3) /\ Utf8From(data, i + 4)
             ELSE IF b = 244 THEN in2(128, 143) /\ c(2) /\ c(3) /\ Utf8From(data, i + 4)
             ELSE FALSE

Utf8Valid(data) == Utf8From(data, 1)

\* str::starts_with
StartsWith(data, pat) == Len(data) >= Len(pat) /\ SubSeq(data, 1, Len(pat)) = pat

HttpSlash == <<72, 84, 84, 80, 47>>   \* "HTTP/"
GetSp == <<71, 69, 84, 32>>           \* "GET "
PostSp == <<80, 79, 83, 84, 32>>      \* "POST "
QPat == <<81>>                        \* "Q"

\* the protocol detection of forward_data: the annotations logged for a chunk
Classify(data) ==
    IF Utf8Valid(data)
    THEN IF StartsWith(data, HttpSlash) \/ StartsWith(data, GetSp) \/ StartsWith(data, PostSp)
         THEN {"http", "http_line"}
         ELSE IF StartsWith(data, QPat) THEN {"query"} ELSE {}
    ELSE {}

\* the lines forward_data logs for a chunk it has read
ChunkLines(s, d, data) ==
    {Line("info", s, Label(d), "bytes"), Line("debug", s, Label(d), "hex"),
     Line("debug", s, Label(d), "ascii")}
    \cup {Line("info", s, Label(d), k) : k \in Classify(data)}

(* ------------------------------- Init --------------------------------- *)
\* what the environment does in a behaviour: how many clients connect, and
\* how many bytes the peer of each connection sends at most
Scenario(n, cq, tq) ==
    [arrivals |-> n, quota |-> [c \in Conns |-> IF c = "client" THEN cq ELSE tq]]

\* the addresses prompt_for_address can return: the listen address and a
\* target address that is the same or another one
ListenAddr == "0.0.0.0:8080"
Addrs == {"0.0.0.0:8080", "172.17.0.3:5000"}

InitWith(sc) ==
    /\ \E t \in Addrs :
          env = [arrivals |-> sc.arrivals, quota |-> sc.quota,
                 listen_addr |-> ListenAddr, target_addr |-> t]
    /\ lpc = "main"
    /\ bridge = BridgeOff
    /\ inbound = [s \in Sessions |-> "none"]
    /\ hpc = [s \in Sessions |-> "idle"]
    /\ hres = [s \in Sessions |-> NoRes]
    /\ attempts = [s \in Sessions |-> 0]
    /\ handles = [s \in Sessions |-> [c \in Conns |-> 0]]
    /\ peer = [s \in Sessions |-> [c \in Conns |-> "open"]]
    /\ sent = [s \in Sessions |-> [d \in Dirs |-> <<>>]]
    /\ rcvd = [s \in Sessions |-> [d \in Dirs |-> <<>>]]
    /\ buf = [s \in Sessions |-> [d \in Dirs |-> <<>>]]
    /\ wr = [s \in Sessions |-> [d \in Dirs |-> <<>>]]
    /\ fpc = [s \in Sessions |-> [d \in Dirs |-> "unstarted"]]
    /\ fres = [s \in Sessions |-> [d \in Dirs |-> "none"]]
    /\ firstFail = [s \in Sessions |-> "none"]
    /\ log = {}

\* one session whose two peers both send data
Init == InitWith(Scenario(1, MaxData, MaxData))

\* listen mode with several clients, each of which sends data
ListenInit == InitWith(Scenario(MaxSessions, MaxDataListen, 0))

\* one session whose two peers may both send, for the properties checked
\* under fair scheduling
FairInit == InitWith(Scenario(1, MaxDataListen, MaxDataListen))

(* --------------------------- the environment -------------------------- *)
\* the target connection of a session exists once connect_timeout returned Ok
TargetConnected(s) == hpc[s] \notin {"idle", "connect"} /\ hres[s].from # "connect"

Established(s, c) == IF c = "client" THEN inbound[s] # "none" ELSE TargetConnected(s)

\* the proxy has dropped every handle of the connection
Closed(s, c) ==
    /\ IF c = "client" THEN inbound[s] = "accepted" ELSE TargetConnected(s)
    /\ handles[s][c] = 0

\* a client connects to the listener: it waits in the backlog
ClientConnect(s) ==
    /\ lpc = "incoming"
    /\ s <= env.arrivals
    /\ inbound[s] = "none"
    /\ \A t \in Sessions : t < s => inbound[t] # "none"
    /\ inbound' = [inbound EXCEPT ![s] = "queued"]
    /\ UNCHANGED <<env, bridge, lpc, hpc, hres, attempts, handles, peer, sent, rcvd, buf, wr,
                   fpc, fres, firstFail, log>>

\* the peer of connection c sends one byte
PeerSend(s, c, b) ==
    LET d == IF c = "client" THEN "c2t" ELSE "t2c" IN
    /\ Established(s, c) /\ ~Closed(s, c)
    /\ peer[s][c] = "open"
    /\ Len(sent[s][d]) < env.quota[c]
    /\ sent' = [sent EXCEPT ![s][d] = Append(@, b)]
    /\ UNCHANGED <<env, bridge, lpc, inbound, hpc, hres, attempts, handles, peer, rcvd, buf, wr,
                   fpc, fres, firstFail, log>>

\* the peer of connection c shuts down its sending side (FIN)
PeerFin(s, c) ==
    /\ Established(s, c) /\ ~Closed(s, c)
    /\ peer[s][c] = "open"
    /\ peer' = [peer EXCEPT ![s][c] = "fin"]
    /\ UNCHANGED <<env, bridge, lpc, inbound, hpc, hres, attempts, handles, sent, rcvd, buf, wr,
                   fpc, fres, firstFail, log>>

\* the peer of connection c resets the connection (RST)
PeerReset(s, c) ==
    /\ Established(s, c) /\ ~Closed(s, c)
    /\ peer[s][c] \in {"open", "fin"}
    /\ peer' = [peer EXCEPT ![s][c] = "reset"]
    /\ UNCHANGED <<env, bridge, lpc, inbound, hpc, hres, attempts, handles, sent, rcvd, buf, wr,
                   fpc, fres, firstFail, log>>

(* -------------------------------- main -------------------------------- *)
\* main with the check of the addresses reduced to a logged warning
MainRejectWarnOnly ==
    /\ lpc = "main"
    /\ env.listen_addr = env.target_addr
    /\ lpc' = "bind"
    /\ log' = log \cup {Line("error", 0, "main", "same_address")}
    /\ UNCHANGED <<env, bridge, inbound, hpc, hres, attempts, handles, peer, sent, rcvd, buf, wr,
                   fpc, fres, firstFail>>

\* main: listen_addr == target_addr: log the error, std::process::exit(1)
MainReject ==
    /\ lpc = "main"
    /\ env.listen_addr = env.target_addr
    /\ lpc' = "exit1"
    /\ log' = log \cup {Line("error", 0, "main", "same_address")}
    /\ UNCHANGED <<env, bridge, inbound, hpc, hres, attempts, handles, peer, sent, rcvd, buf, wr,
                   fpc, fres, firstFail>>

\* main: the addresses differ: ServiceProxy::new(..).start()
MainStart ==
    /\ lpc = "main"
    /\ env.listen_addr # env.target_addr
    /\ lpc' = "bind"
    /\ UNCHANGED <<env, bridge, inbound, hpc, hres, attempts, handles, peer, sent, rcvd, buf, wr,
                   fpc, fres, firstFail, log>>

(* ------------------------ ServiceProxy::start -------------------------- *)
BindOk ==
    /\ lpc = "bind"
    /\ lpc' = "incoming"
    /\ log' = log \cup {Line("info", 0, "proxy", "starting")}
    /\ UNCHANGED <<env, bridge, inbound, hpc, hres, attempts, handles, peer, sent, rcvd, buf, wr,
                   fpc, fres, firstFail>>

BindFail ==
    /\ lpc = "bind"
    /\ lpc' = "failed"
    /\ log' = log \cup {Line("info", 0, "proxy", "starting")}
    /\ UNCHANGED <<env, bridge, inbound, hpc, hres, attempts, handles, peer, sent, rcvd, buf, wr,
                   fpc, fres, firstFail>>

\* CanAccept of a loop that runs handle_connection inline: the next
\* connection is taken only when every earlier handler has returned
CanAcceptSerial(s) ==
    /\ lpc = "incoming"
    /\ inbound[s] = "queued"
    /\ \A t \in Sessions : t < s => inbound[t] # "queued"
    /\ \A t \in Sessions : hpc[t] \in {"idle", "returned"}

\* listener.incoming() can yield the inbound connection s
CanAccept(s) ==
    /\ lpc = "incoming"
    /\ inbound[s] = "queued"
    /\ \A t \in Sessions : t < s => inbound[t] # "queued"

\* one iteration of the loop on Ok(client_stream): log, thread::spawn, next
AcceptOk(s) ==
    /\ CanAccept(s)
    /\ inbound' = [inbound EXCEPT ![s] = "accepted"]
    /\ handles' = [handles EXCEPT ![s]["client"] = 1]
    /\ hpc' = [hpc EXCEPT ![s] = "connect"]
    /\ lpc' = "incoming"
    /\ log' = log \cup {Line("info", s, "proxy", "new_connection")}
    /\ UNCHANGED <<env, bridge, hres, attempts, peer, sent, rcvd, buf, wr, fpc, fres, firstFail>>

\* AcceptErr of a loop that propagates the error (stream?) and so ends
AcceptErrFatal ==
    /\ lpc = "incoming"
    /\ lpc' = "failed"
    /\ log' = log \cup {Line("error", 0, "proxy", "accept_error")}
    /\ UNCHANGED <<env, bridge, inbound, hpc, hres, attempts, handles, peer, sent, rcvd, buf, wr,
                   fpc, fres, firstFail>>

\* one iteration of the loop on Err(e): log, next
AcceptErr ==
    /\ lpc = "incoming"
    /\ lpc' = "incoming"
    /\ log' = log \cup {Line("error", 0, "proxy", "accept_error")}
    /\ UNCHANGED <<env, bridge, inbound, hpc, hres, attempts, handles, peer, sent, rcvd, buf, wr,
                   fpc, fres, firstFail>>

(* -------------------------- handle_connection -------------------------- *)
\* Return with the stream handles kept in a table shared by all sessions,
\* which an early return clears
ReturnShared(s, r, lines, dropped) ==
    /\ hpc' = [hpc EXCEPT ![s] = "returned"]
    /\ hres' = [hres EXCEPT ![s] = r]
    /\ handles' = [t \in Sessions |-> [c \in Conns |-> IF dropped THEN 0 ELSE handles[t][c]]]
    /\ log' = log \cup lines \cup
              (IF r.kind = "Err" THEN {Line("error", s, "proxy", "handler_error")} ELSE {})

\* handle_connection returns r to the closure of the session's thread, which
\* logs an Err; on the early returns the streams the handler owns are dropped
Return(s, r, lines, dropped) ==
    /\ hpc' = [hpc EXCEPT ![s] = "returned"]
    /\ hres' = [hres EXCEPT ![s] = r]
    /\ handles' = [handles EXCEPT ![s] = [c \in Conns |-> IF dropped THEN 0 ELSE @[c]]]
    /\ log' = log \cup lines \cup
              (IF r.kind = "Err" THEN {Line("error", s, "proxy", "handler_error")} ELSE {})

\* TcpStream::connect_timeout(&target_addr, 5 s) returns Ok
ConnectOk(s) ==
    /\ hpc[s] = "connect"
    /\ attempts' = [attempts EXCEPT ![s] = @ + 1]
    /\ handles' = [handles EXCEPT ![s]["target"] = 1]
    /\ hpc' = [hpc EXCEPT ![s] = "clone_client"]
    /\ log' = log \cup {Line("info", s, "proxy", "connected")}
    /\ UNCHANGED <<env, bridge, lpc, inbound, hres, peer, sent, rcvd, buf, wr, fpc, fres, firstFail>>

\* ConnectFail of a handler that keeps the inbound stream alive after the
\* failed connect
ConnectFailLeak(s) ==
    /\ hpc[s] = "connect"
    /\ attempts' = [attempts EXCEPT ![s] = @ + 1]
    /\ Return(s, ErrRes("connect", "ConnectErr"),
              {Line("error", s, "proxy", "connect_failed")}, FALSE)
    /\ UNCHANGED <<env, bridge, lpc, inbound, peer, sent, rcvd, buf, wr, fpc, fres, firstFail>>

\* TcpStream::connect_timeout returns Err: log and return it
ConnectFail(s) ==
    /\ hpc[s] = "connect"
    /\ attempts' = [attempts EXCEPT ![s] = @ + 1]
    /\ Return(s, ErrRes("connect", "ConnectErr"),
              {Line("error", s, "proxy", "connect_failed")}, TRUE)
    /\ UNCHANGED <<env, bridge, lpc, inbound, peer, sent, rcvd, buf, wr, fpc, fres, firstFail>>

\* client_stream.try_clone()?
CloneClientOk(s) ==
    /\ hpc[s] = "clone_client"
    /\ handles' = [handles EXCEPT ![s]["client"] = @ + 1]
    /\ hpc' = [hpc EXCEPT ![s] = "clone_target"]
    /\ UNCHANGED <<env, bridge, lpc, inbound, hres, attempts, peer, sent, rcvd, buf, wr, fpc, fres,
                   firstFail, log>>

CloneClientFail(s) ==
    /\ hpc[s] = "clone_client"
    /\ Return(s, ErrRes("clone_client", "CloneErr"), {}, TRUE)
    /\ UNCHANGED <<env, bridge, lpc, inbound, attempts, peer, sent, rcvd, buf, wr, fpc, fres,
                   firstFail>>

\* target_stream.try_clone()?
CloneTargetOk(s) ==
    /\ hpc[s] = "clone_target"
    /\ handles' = [handles EXCEPT ![s]["target"] = @ + 1]
    /\ hpc' = [hpc EXCEPT ![s] = "spawn1"]
    /\ UNCHANGED <<env, bridge, lpc, inbound, hres, attempts, peer, sent, rcvd, buf, wr, fpc, fres,
                   firstFail, log>>

\* CloneTargetFail of a handler that starts the first direction before the
\* second clone and leaves it running when that clone fails
CloneTargetFailHalfPair(s) ==
    /\ hpc[s] = "clone_target"
    /\ hpc' = [hpc EXCEPT ![s] = "returned"]
    /\ hres' = [hres EXCEPT ![s] = ErrRes("clone_target", "CloneErr")]
    /\ fpc' = [fpc EXCEPT ![s]["c2t"] = "read"]
    /\ log' = log \cup {Line("error", s, "proxy", "handler_error")}
    /\ UNCHANGED <<env, bridge, lpc, inbound, attempts, handles, peer, sent, rcvd, buf, wr, fres,
                   firstFail>>

CloneTargetFail(s) ==
    /\ hpc[s] = "clone_target"
    /\ Return(s, ErrRes("clone_target", "CloneErr"), {}, TRUE)
    /\ UNCHANGED <<env, bridge, lpc, inbound, attempts, peer, sent, rcvd, buf, wr, fpc, fres,
                   firstFail>>

\* handle1 = thread::spawn(forward_data(client_stream, target_stream_clone, ..))
Spawn1(s) ==
    /\ hpc[s] = "spawn1"
    /\ fpc' = [fpc EXCEPT ![s]["c2t"] = "read"]
    /\ hpc' = [hpc EXCEPT ![s] = "spawn2"]
    /\ UNCHANGED <<env, bridge, lpc, inbound, hres, attempts, handles, peer, sent, rcvd, buf, wr,
                   fres, firstFail, log>>

\* handle2 = thread::spawn(forward_data(target_stream, client_stream_clone, ..))
Spawn2(s) ==
    /\ hpc[s] = "spawn2"
    /\ fpc' = [fpc EXCEPT ![s]["t2c"] = "read"]
    /\ hpc' = [hpc EXCEPT ![s] = "join1"]
    /\ UNCHANGED <<env, bridge, lpc, inbound, hres, attempts, handles, peer, sent, rcvd, buf, wr,
                   fres, firstFail, log>>

\* Join1 with the result of the first thread discarded (no ? operator)
Join1Ignore(s) ==
    /\ hpc[s] = "join1"
    /\ fpc[s]["c2t"] = "done"
    /\ hpc' = [hpc EXCEPT ![s] = "join2"]
    /\ UNCHANGED <<env, bridge, lpc, inbound, hres, handles, log, attempts, peer, sent, rcvd, buf,
                   wr, fpc, fres, firstFail>>

\* handle1.join().unwrap()?
Join1(s) ==
    /\ hpc[s] = "join1"
    /\ fpc[s]["c2t"] = "done"
    /\ IF fres[s]["c2t"] = "Ok"
       THEN /\ hpc' = [hpc EXCEPT ![s] = "join2"]
            /\ UNCHANGED <<hres, handles, log>>
       ELSE Return(s, ErrRes("c2t", fres[s]["c2t"]), {}, FALSE)
    /\ UNCHANGED <<env, bridge, lpc, inbound, attempts, peer, sent, rcvd, buf, wr, fpc, fres,
                   firstFail>>

\* Join2 with the result of the second thread discarded (no ? operator)
Join2Swallow(s) ==
    /\ hpc[s] = "join2"
    /\ fpc[s]["t2c"] = "done"
    /\ Return(s, OkRes, {}, FALSE)
    /\ UNCHANGED <<env, bridge, lpc, inbound, attempts, peer, sent, rcvd, buf, wr, fpc, fres,
                   firstFail>>

\* handle2.join().unwrap()?; Ok(())
Join2(s) ==
    /\ hpc[s] = "join2"
    /\ fpc[s]["t2c"] = "done"
    /\ Return(s, IF fres[s]["t2c"] = "Ok" THEN OkRes ELSE ErrRes("t2c", fres[s]["t2c"]),
              {}, FALSE)
    /\ UNCHANGED <<env, bridge, lpc, inbound, attempts, peer, sent, rcvd, buf, wr, fpc, fres,
                   firstFail>>

(* ----------------------------- forward_data ---------------------------- *)
\* Exit of a forward_data that shuts both sockets down when it fails, which
\* takes the connections away from the other direction
ExitShutdown(s, d, r) ==
    /\ fpc' = [fpc EXCEPT ![s][d] = "done"]
    /\ fres' = [fres EXCEPT ![s][d] = r]
    /\ handles' = [handles EXCEPT ![s] = [c \in Conns |-> IF r = "Ok" THEN @[c] - 1 ELSE 0]]
    /\ firstFail' = [firstFail EXCEPT ![s] = IF r # "Ok" /\ @ = "none" THEN d ELSE @]

\* Exit of a thread whose stream handles outlive it
ExitLeak(s, d, r) ==
    /\ fpc' = [fpc EXCEPT ![s][d] = "done"]
    /\ fres' = [fres EXCEPT ![s][d] = r]
    /\ handles' = handles
    /\ firstFail' = [firstFail EXCEPT ![s] = IF r # "Ok" /\ @ = "none" THEN d ELSE @]

\* forward_data returns r: the thread ends and drops its two stream handles
Exit(s, d, r) ==
    /\ fpc' = [fpc EXCEPT ![s][d] = "done"]
    /\ fres' = [fres EXCEPT ![s][d] = r]
    /\ handles' = [handles EXCEPT ![s] = [c \in Conns |-> @[c] - 1]]
    /\ firstFail' = [firstFail EXCEPT ![s] = IF r # "Ok" /\ @ = "none" THEN d ELSE @]

\* bytes the source peer has sent that forward_data has not read yet
Avail(s, d) == Len(sent[s][d]) - Len(rcvd[s][d])

\* from.read(&mut buffer) returns Ok(n), n > 0: log, classify, go on to write
ReadChunk(s, d, n) ==
    LET data == SubSeq(sent[s][d], Len(rcvd[s][d]) + 1, Len(rcvd[s][d]) + n) IN
    /\ fpc[s][d] = "read"
    /\ peer[s][Src(d)] # "reset"
    /\ n >= 1 /\ n <= Min(Avail(s, d), BufLen)
    /\ rcvd' = [rcvd EXCEPT ![s][d] = @ \o data]
    /\ buf' = [buf EXCEPT ![s][d] = data]
    /\ log' = log \cup ChunkLines(s, d, data)
    /\ fpc' = [fpc EXCEPT ![s][d] = "write"]
    /\ UNCHANGED <<env, bridge, lpc, inbound, hpc, hres, attempts, handles, peer, sent, wr, fres,
                   firstFail>>

\* ReadEof with Ok(0) taken for a failure of the read
ReadEofAsErr(s, d) ==
    /\ fpc[s][d] = "read"
    /\ peer[s][Src(d)] = "fin"
    /\ Avail(s, d) = 0
    /\ Exit(s, d, "ReadErr")
    /\ log' = log \cup {Line("error", s, Label(d), "read_error")}
    /\ UNCHANGED <<env, bridge, lpc, inbound, hpc, hres, attempts, peer, sent, rcvd, buf, wr>>

\* ReadEof of a loop that takes Ok(0) for an empty chunk and reads again
ReadEofSpin(s, d) ==
    /\ fpc[s][d] = "read"
    /\ peer[s][Src(d)] = "fin"
    /\ Avail(s, d) = 0
    /\ UNCHANGED vars

\* from.read(&mut buffer) returns Ok(0): break, log, Ok(())
ReadEof(s, d) ==
    /\ fpc[s][d] = "read"
    /\ peer[s][Src(d)] = "fin"
    /\ Avail(s, d) = 0
    /\ Exit(s, d, "Ok")
    /\ log' = log \cup {Line("info", s, Label(d), "closed")}
    /\ UNCHANGED <<env, bridge, lpc, inbound, hpc, hres, attempts, peer, sent, rcvd, buf, wr>>

\* ReadErr without the error! line
ReadErrUnlogged(s, d) ==
    /\ fpc[s][d] = "read"
    /\ peer[s][Src(d)] = "reset"
    /\ Exit(s, d, "ReadErr")
    /\ log' = log
    /\ UNCHANGED <<env, bridge, lpc, inbound, hpc, hres, attempts, peer, sent, rcvd, buf, wr>>

\* from.read(&mut buffer) returns Err(e): log, return Err(e)
ReadErr(s, d) ==
    /\ fpc[s][d] = "read"
    /\ peer[s][Src(d)] = "reset"
    /\ Exit(s, d, "ReadErr")
    /\ log' = log \cup {Line("error", s, Label(d), "read_error")}
    /\ UNCHANGED <<env, bridge, lpc, inbound, hpc, hres, attempts, peer, sent, rcvd, buf, wr>>

\* WriteSome with a write_all loop that does not advance past the bytes a
\* write call accepted
WriteSomeDup(s, d, k) ==
    /\ fpc[s][d] = "write"
    /\ peer[s][Dst(d)] # "reset"
    /\ k >= 1 /\ k <= Len(buf[s][d])
    /\ wr' = [wr EXCEPT ![s][d] = @ \o SubSeq(buf[s][d], 1, k)]
    /\ buf' = buf
    /\ fpc' = [fpc EXCEPT ![s][d] = IF k = Len(buf[s][d]) THEN "flush" ELSE "write"]
    /\ UNCHANGED <<env, bridge, lpc, inbound, hpc, hres, attempts, handles, peer, sent, rcvd, fres,
                   firstFail, log>>

\* WriteSome with a single to.write(data) whose short count is an error
WriteSomeFailFast(s, d, k) ==
    /\ fpc[s][d] = "write"
    /\ peer[s][Dst(d)] # "reset"
    /\ k >= 1 /\ k <= Len(buf[s][d])
    /\ wr' = [wr EXCEPT ![s][d] = @ \o SubSeq(buf[s][d], 1, k)]
    /\ buf' = [buf EXCEPT ![s][d] = SubSeq(@, k + 1, Len(@))]
    /\ IF k = Len(buf[s][d])
       THEN fpc' = [fpc EXCEPT ![s][d] = "flush"] /\ UNCHANGED <<handles, fres, firstFail>>
       ELSE Exit(s, d, "WriteErr")
    /\ UNCHANGED <<env, bridge, lpc, inbound, hpc, hres, attempts, peer, sent, rcvd, log>>

\* to.write_all(data): one write call of its loop accepts k bytes
WriteSome(s, d, k) ==
    /\ fpc[s][d] = "write"
    /\ peer[s][Dst(d)] # "reset"
    /\ k >= 1 /\ k <= Len(buf[s][d])
    /\ wr' = [wr EXCEPT ![s][d] = @ \o SubSeq(buf[s][d], 1, k)]
    /\ buf' = [buf EXCEPT ![s][d] = SubSeq(@, k + 1, Len(@))]
    /\ fpc' = [fpc EXCEPT ![s][d] = IF k = Len(buf[s][d]) THEN "flush" ELSE "write"]
    /\ UNCHANGED <<env, bridge, lpc, inbound, hpc, hres, attempts, handles, peer, sent, rcvd, fres,
                   firstFail, log>>

\* to.write_all(data)?: a write call of its loop returns Err(e)
WriteErr(s, d) ==
    /\ fpc[s][d] = "write"
    /\ peer[s][Dst(d)] = "reset"
    /\ Exit(s, d, "WriteErr")
    /\ buf' = [buf EXCEPT ![s][d] = <<>>]
    /\ UNCHANGED <<env, bridge, lpc, inbound, hpc, hres, attempts, peer, sent, rcvd, wr, log>>

\* to.flush()? returns Ok
FlushOk(s, d) ==
    /\ fpc[s][d] = "flush"
    /\ fpc' = [fpc EXCEPT ![s][d] = "read"]
    /\ UNCHANGED <<env, bridge, lpc, inbound, hpc, hres, attempts, handles, peer, sent, rcvd, buf,
                   wr, fres, firstFail, log>>

\* to.flush()? returns Err(e)
FlushErr(s, d) ==
    /\ fpc[s][d] = "flush"
    /\ peer[s][Dst(d)] = "reset"
    /\ Exit(s, d, "FlushErr")
    /\ UNCHANGED <<env, bridge, lpc, inbound, hpc, hres, attempts, peer, sent, rcvd, buf, wr, log>>

(* ------------------------------- Next ---------------------------------- *)
Environment ==
    \E s \in Sessions :
        \/ ClientConnect(s)
        \/ \E c \in Conns : \/ \E b \in Byte : PeerSend(s, c, b)
                            \/ PeerFin(s, c)
                            \/ PeerReset(s, c)

Main == MainReject \/ MainStart

Listener == BindOk \/ BindFail \/ AcceptErr \/ \E s \in Sessions : AcceptOk(s)

Handler(s) ==
    \/ ConnectOk(s) \/ ConnectFail(s)
    \/ CloneClientOk(s) \/ CloneClientFail(s)
    \/ CloneTargetOk(s) \/ CloneTargetFail(s)
    \/ Spawn1(s) \/ Spawn2(s) \/ Join1(s) \/ Join2(s)

Forwarder(s, d) ==
    \/ \E n \in 1..BufLen : ReadChunk(s, d, n)
    \/ ReadEof(s, d) \/ ReadErr(s, d)
    \/ \E k \in 1..BufLen : WriteSome(s, d, k)
    \/ WriteErr(s, d)
    \/ FlushOk(s, d) \/ FlushErr(s, d)

Program == Main \/ Listener \/ \E s \in Sessions : Handler(s) \/ \E d \in Dirs : Forwarder(s, d)

Next == Environment \/ Program

Spec == Init /\ [][Next]_vars

ListenSpec == ListenInit /\ [][Next]_vars

\* every spawned thread is an OS thread and keeps being scheduled; the
\* peers are under no obligation to send, close or reset
Fairness ==
    /\ WF_vars(Main \/ BindOk \/ \E s \in Sessions : AcceptOk(s))
    /\ \A s \in Sessions :
          /\ WF_vars(Handler(s))
          /\ \A d \in Dirs : WF_vars(Forwarder(s, d))

FairSpec == FairInit /\ [][Next]_vars /\ Fairness

(* ----------------------------- bridge mode ----------------------------- *)
\* bridge mode starts idle; either endpoint may or may not be reachable yet
BridgeInit ==
    /\ \E t \in Addrs \ {ListenAddr} :
          env = [arrivals |-> 0, quota |-> [c \in Conns |-> 0],
                 listen_addr |-> ListenAddr, target_addr |-> t]
    /\ lpc = "bridge"
    /\ \E up \in [Ends -> BOOLEAN] : bridge = BridgeState("idle", NoConn, up, 0, 0)
    /\ inbound = [s \in Sessions |-> "none"]
    /\ hpc = [s \in Sessions |-> "idle"]
    /\ hres = [s \in Sessions |-> NoRes]
    /\ attempts = [s \in Sessions |-> 0]
    /\ handles = [s \in Sessions |-> [c \in Conns |-> 0]]
    /\ peer = [s \in Sessions |-> [c \in Conns |-> "open"]]
    /\ sent = [s \in Sessions |-> [d \in Dirs |-> <<>>]]
    /\ rcvd = [s \in Sessions |-> [d \in Dirs |-> <<>>]]
    /\ buf = [s \in Sessions |-> [d \in Dirs |-> <<>>]]
    /\ wr = [s \in Sessions |-> [d \in Dirs |-> <<>>]]
    /\ fpc = [s \in Sessions |-> [d \in Dirs |-> "unstarted"]]
    /\ fres = [s \in Sessions |-> [d \in Dirs |-> "none"]]
    /\ firstFail = [s \in Sessions |-> "none"]
    /\ log = {}

ListenVars == <<env, lpc, inbound, hpc, hres, attempts, handles, peer, sent, rcvd, buf, wr,
                fpc, fres, firstFail>>

\* an endpoint becomes reachable
EndpointUp(e) ==
    /\ bridge.pc # "off"
    /\ ~bridge.up[e]
    /\ bridge' = [bridge EXCEPT !.up[e] = TRUE]
    /\ UNCHANGED <<ListenVars, log>>

\* an endpoint stops being reachable
EndpointDown(e) ==
    /\ bridge.pc # "off"
    /\ bridge.up[e]
    /\ bridge' = [bridge EXCEPT !.up[e] = FALSE]
    /\ UNCHANGED <<ListenVars, log>>

\* Idle -> Dialing: the loop starts a round of dials from scratch
BridgeStart ==
    /\ bridge.pc = "idle"
    /\ bridge' = [bridge EXCEPT !.pc = "dialing", !.conn = NoConn]
    /\ UNCHANGED <<ListenVars, log>>

\* a dial of endpoint e succeeds; with both sides connected the pair exists
DialOk(e) ==
    /\ bridge.pc = "dialing"
    /\ bridge.conn[e] = "none"
    /\ bridge.up[e]
    /\ bridge' = [bridge EXCEPT !.conn[e] = "open",
                                !.pc = IF \A f \in Ends \ {e} : bridge.conn[f] = "open"
                                       THEN "paired" ELSE "dialing"]
    /\ UNCHANGED <<ListenVars, log>>

\* DialFail of a loop that keeps the side that did connect for the next round
DialFailKeepPartial(e) ==
    /\ bridge.pc = "dialing"
    /\ bridge.conn[e] = "none"
    /\ ~bridge.up[e]
    /\ bridge' = [bridge EXCEPT !.pc = "backoff",
                                !.fails = IF @ < MaxFails THEN @ + 1 ELSE @]
    /\ log' = log \cup {Line("error", 0, "bridge", "dial_failed")}
    /\ UNCHANGED ListenVars

\* Dialing -> Backoff: a dial of endpoint e fails: log, discard the side
\* that did connect, go to sleep
DialFail(e) ==
    /\ bridge.pc = "dialing"
    /\ bridge.conn[e] = "none"
    /\ ~bridge.up[e]
    /\ bridge' = [bridge EXCEPT !.pc = "backoff", !.conn = NoConn,
                                !.fails = IF @ < MaxFails THEN @ + 1 ELSE @]
    /\ log' = log \cup {Line("error", 0, "bridge", "dial_failed")}
    /\ UNCHANGED ListenVars

\* Backoff -> Dialing: the fixed sleep is over, both dials are redone
BackoffOver ==
    /\ bridge.pc = "backoff"
    /\ bridge' = [bridge EXCEPT !.pc = "dialing"]
    /\ UNCHANGED <<ListenVars, log>>

\* Paired -> Relaying: the pair is handed to the Connection Pair Handler,
\* on which the loop blocks
BridgeRelay ==
    /\ bridge.pc = "paired"
    /\ bridge' = [bridge EXCEPT !.pc = "relaying",
                                !.sessions = IF @ < MaxBridgeSessions THEN @ + 1 ELSE @]
    /\ log' = log \cup {Line("info", 0, "bridge", "session_started")}
    /\ UNCHANGED ListenVars

\* Relaying -> Dialing: the session ends, for whatever reason, and the loop
\* dials both addresses again
BridgeSessionEnds ==
    /\ bridge.pc = "relaying"
    /\ bridge' = [bridge EXCEPT !.pc = "dialing", !.conn = NoConn, !.fails = 0]
    /\ log' = log \cup {Line("info", 0, "bridge", "session_ended")}
    /\ UNCHANGED ListenVars

BridgeLoop ==
    \/ BridgeStart
    \/ \E e \in Ends : DialOk(e) \/ DialFail(e)
    \/ BackoffOver
    \/ BridgeRelay

BridgeNext ==
    \/ BridgeLoop
    \/ BridgeSessionEnds
    \/ \E e \in Ends : EndpointUp(e) \/ EndpointDown(e)

\* the loop is one thread that keeps running; when an endpoint is reachable
\* and when a session ends is up to the peers
BridgeSpec == BridgeInit /\ [][BridgeNext]_vars /\ WF_vars(BridgeLoop)

(* ======================= properties of the claims ====================== *)
Other(d) == IF d = "c2t" THEN "t2c" ELSE "c2t"

\* C1: in every reachable state the bytes written to the destination of a
\* direction are a prefix of the bytes read from its source, and when the
\* direction has ended with Ok on end-of-stream the two are equal; nothing
\* in this depends on how the chunks were classified.
ByteFidelity ==
    \A s \in Sessions : \A d \in Dirs :
        /\ Prefix(wr[s][d], rcvd[s][d])
        /\ fres[s][d] = "Ok" => wr[s][d] = rcvd[s][d]

\* a direction has ended cleanly after relaying 'Q' (annotated as a query,
\* read as a chunk of its own) and then 0xFF (not UTF-8, not annotated)
ByteFidelityWitness ==
    /\ fres[1]["c2t"] = "Ok"
    /\ wr[1]["c2t"] = <<81, 255>>
    /\ Line("info", 1, Label("c2t"), "query") \in log

\* C2: a read that returns zero bytes ends the direction with Ok, and once
\* a direction has ended with Ok it reads, writes and flushes nothing more.
TerminationOnEof ==
    [][\A s \in Sessions : \A d \in Dirs :
        /\ (/\ fpc[s][d] = "read" /\ peer[s][Src(d)] = "fin" /\ Avail(s, d) = 0
            /\ fpc'[s][d] # "read")
           => (fpc'[s][d] = "done" /\ fres'[s][d] = "Ok")
        /\ fres[s][d] = "Ok"
           => /\ fpc'[s][d] = "done" /\ fres'[s][d] = "Ok"
              /\ rcvd'[s][d] = rcvd[s][d] /\ wr'[s][d] = wr[s][d]
              /\ buf'[s][d] = buf[s][d]]_vars

\* a direction has ended with Ok after relaying data while the source peer
\* had more to say had it not closed, and the other direction still runs
TerminationOnEofWitness ==
    /\ fres[1]["c2t"] = "Ok"
    /\ wr[1]["c2t"] # <<>>
    /\ fpc[1]["t2c"] = "write"

\* C3: once either forwarding task of a session has terminated, the other
\* one eventually terminates as well (no half-open session remains).
NoHalfOpenLeak ==
    \A s \in Sessions : \A d \in Dirs :
        (fpc[s][d] = "done") ~> (fpc[s][Other(d)] = "done")

\* C4: having started both forwarding tasks, handle_connection does not
\* return before both of them have exited.
HandlerBlocksUntilBothExit ==
    \A s \in Sessions :
        (hpc[s] = "returned" /\ \A d \in Dirs : fpc[s][d] # "unstarted")
            => \A d \in Dirs : fpc[s][d] = "done"

\* C5 as stated: a failed direction makes handle_connection return an
\* error, and when both directions failed the error is that of the
\* direction that failed first in time.
FirstFailureInTimePropagated ==
    \A s \in Sessions :
        hpc[s] = "returned" =>
            /\ (\E d \in Dirs : fres[s][d] \notin {"none", "Ok"}) => hres[s].kind = "Err"
            /\ (\A d \in Dirs : fres[s][d] \notin {"none", "Ok"})
                   => (hres[s].from = firstFail[s] /\ hres[s].err = fres[s][firstFail[s]])

\* C5 as amended: a failed direction makes handle_connection return an
\* error, and the error is that of Client -> Target whenever that direction
\* failed (it is joined first), whichever direction failed first in time;
\* the error of Target -> Client is returned only when Client -> Target
\* ended with Ok.
FirstJoinedFailurePropagated ==
    \A s \in Sessions :
        hpc[s] = "returned" =>
            /\ (\E d \in Dirs : fres[s][d] \notin {"none", "Ok"}) => hres[s].kind = "Err"
            /\ fres[s]["c2t"] \notin {"none", "Ok"}
                   => (hres[s].from = "c2t" /\ hres[s].err = fres[s]["c2t"])
            /\ (fres[s]["c2t"] = "Ok" /\ fres[s]["t2c"] \notin {"none", "Ok"})
                   => (hres[s].from = "t2c" /\ hres[s].err = fres[s]["t2c"])

\* both directions failed, Target -> Client first, and the handler returned
\* the error of Client -> Target
FirstJoinedFailureWitness ==
    /\ hpc[1] = "returned"
    /\ firstFail[1] = "t2c"
    /\ fres[1]["t2c"] = "WriteErr"
    /\ fres[1]["c2t"] = "ReadErr"
    /\ hres[1] = ErrRes("c2t", "ReadErr")

\* C6: handle_connection returns Ok only when the connect succeeded, the
\* two forwarding tasks were started (so both clones succeeded) and both
\* have terminated with Ok.
OkOnlyIfBothClean ==
    \A s \in Sessions :
        hres[s].kind = "Ok" =>
            /\ hpc[s] = "returned"
            /\ attempts[s] = 1 /\ TargetConnected(s)
            /\ \A d \in Dirs : fpc[s][d] = "done" /\ fres[s][d] = "Ok"

\* the handler returned Ok after a session that relayed data both ways
OkOnlyIfBothCleanWitness ==
    /\ hres[1].kind = "Ok"
    /\ wr[1]["c2t"] # <<>>
    /\ wr[1]["t2c"] # <<>>

\* the state of one session: everything the model keeps for it
SessionState(s) ==
    <<inbound[s], hpc[s], hres[s], attempts[s], handles[s], peer[s], sent[s], rcvd[s],
      buf[s], wr[s], fpc[s], fres[s], firstFail[s], {l \in log : l.session = s}>>

\* C7: no step changes the state of two sessions: whatever happens in one
\* session (a failed connect, a read or write failure, anything else)
\* leaves every other session, and the accept loop, as it was.
ListenModeIsolation ==
    [][\A a \in Sessions : \A b \in Sessions \ {a} :
          (SessionState(a))' # SessionState(a)
              => ((SessionState(b))' = SessionState(b) /\ lpc' = lpc)]_vars

\* session 1 failed to connect to the target; session 2 was still accepted,
\* got its own outbound connection and forwarding tasks, relayed its byte
\* and ended cleanly
ListenModeIsolationWitness ==
    /\ hres[1] = ErrRes("connect", "ConnectErr")
    /\ hres[2].kind = "Ok"
    /\ attempts[2] = 1
    /\ wr[2]["c2t"] = sent[2]["c2t"] /\ Len(wr[2]["c2t"]) = MaxDataListen

\* C8: whenever the listener is bound and a connection waits first in the
\* backlog, the loop can accept it, whatever the earlier sessions are doing;
\* and accepting hands the connection to a thread that has not yet tried to
\* connect, with the loop back at accept().
AcceptNeverBlocks ==
    /\ [](\A s \in Sessions :
            (/\ lpc = "incoming" /\ inbound[s] = "queued"
             /\ \A t \in Sessions : t < s => inbound[t] = "accepted")
                => ENABLED AcceptOk(s))
    /\ [][\A s \in Sessions :
            (inbound[s] = "queued" /\ inbound'[s] = "accepted")
                => (lpc' = "incoming" /\ hpc'[s] = "connect" /\ attempts'[s] = 0
                    /\ \A d \in Dirs : fpc'[s][d] = "unstarted")]_vars

\* session 2 was accepted and is relaying while session 1 is still
\* connecting to the target
AcceptNeverBlocksWitness ==
    /\ hpc[1] = "connect"
    /\ hpc[2] = "join1"
    /\ fpc[2]["c2t"] = "write"

\* C9: once the listener is bound, the accept loop stays in its loop
\* whatever fails, and every handler that returned an error has its error
\* logged.
AcceptLoopSurvives ==
    /\ [][lpc = "incoming" => lpc' = "incoming"]_vars
    /\ [](\A s \in Sessions :
            hres[s].kind = "Err" => Line("error", s, "proxy", "handler_error") \in log)

\* an accept error, a failed connect and a failed forwarding task have all
\* happened, and the loop still accepts
AcceptLoopSurvivesWitness ==
    /\ lpc = "incoming"
    /\ Line("error", 0, "proxy", "accept_error") \in log
    /\ hres[1] = ErrRes("connect", "ConnectErr")
    /\ hres[2] = ErrRes("c2t", "WriteErr")

\* C10: after a failed connect there was exactly one connect attempt, no
\* forwarding task was started, nothing was read from or written to either
\* connection, the failure is logged and the inbound connection is closed.
ConnectFailureDropsInbound ==
    \A s \in Sessions :
        hres[s].from = "connect" =>
            /\ hpc[s] = "returned"
            /\ attempts[s] = 1
            /\ \A d \in Dirs :
                  /\ fpc[s][d] = "unstarted"
                  /\ rcvd[s][d] = <<>> /\ wr[s][d] = <<>>
            /\ Line("error", s, "proxy", "connect_failed") \in log
            /\ Closed(s, "client")

\* the connect failed for a client that had already sent its data
ConnectFailureDropsInboundWitness ==
    /\ hres[1].from = "connect"
    /\ Len(sent[1]["c2t"]) = MaxData

Running(s, d) == fpc[s][d] \in {"read", "write", "flush"}

\* C11: a step in which one direction fails changes nothing of the other
\* direction; while a direction runs, both connections stay open, also after
\* the handler has returned; a chunk it has read can be written as long as
\* its own destination has not failed; and a direction ends only on its own
\* end-of-stream or its own I/O error.
IndependentDirectionFailure ==
    /\ [][\A s \in Sessions : \A d \in Dirs :
            (fres[s][d] = "none" /\ fres'[s][d] \notin {"none", "Ok"})
                => /\ fpc'[s][Other(d)] = fpc[s][Other(d)]
                   /\ fres'[s][Other(d)] = fres[s][Other(d)]
                   /\ rcvd'[s][Other(d)] = rcvd[s][Other(d)]
                   /\ buf'[s][Other(d)] = buf[s][Other(d)]
                   /\ wr'[s][Other(d)] = wr[s][Other(d)]]_vars
    /\ [](\A s \in Sessions : \A d \in Dirs :
            Running(s, d) =>
                /\ \A c \in Conns : handles[s][c] >= 1
                /\ (fpc[s][d] = "write" /\ peer[s][Dst(d)] # "reset")
                       => ENABLED WriteSome(s, d, Len(buf[s][d])))
    /\ [][\A s \in Sessions : \A d \in Dirs :
            (Running(s, d) /\ fpc'[s][d] = "done")
                => \/ fres'[s][d] = "Ok" /\ peer[s][Src(d)] = "fin" /\ Avail(s, d) = 0
                   \/ fres'[s][d] = "ReadErr" /\ peer[s][Src(d)] = "reset"
                   \/ fres'[s][d] \in {"WriteErr", "FlushErr"} /\ peer[s][Dst(d)] = "reset"]_vars

\* Client -> Target failed on its write and the handler has returned that
\* error, while Target -> Client has written the chunk it had read and is
\* still running
IndependentDirectionFailureWitness ==
    /\ hres[1] = ErrRes("c2t", "WriteErr")
    /\ fpc[1]["t2c"] = "flush"
    /\ wr[1]["t2c"] # <<>>
    /\ \A c \in Conns : handles[1][c] = 1

\* C12: a write call that accepts fewer bytes than the chunk still holds
\* ends the direction with an error; no further write call is issued for the
\* rest of the chunk.
PartialWriteIsFatal ==
    [][\A s \in Sessions : \A d \in Dirs :
          (/\ fpc[s][d] = "write"
           /\ wr'[s][d] # wr[s][d]
           /\ Len(wr'[s][d]) - Len(wr[s][d]) < Len(buf[s][d]))
              => (fpc'[s][d] = "done" /\ fres'[s][d] \notin {"none", "Ok"})]_vars

\* C12 as amended: a write call that accepts fewer bytes than the chunk still
\* holds is not fatal: the direction stays in write_all with exactly the
\* remaining bytes to write; a direction ends with a write error only when
\* its destination has failed, and after that it writes nothing more.
PartialWriteIsContinued ==
    [][\A s \in Sessions : \A d \in Dirs :
          /\ (/\ fpc[s][d] = "write"
              /\ wr'[s][d] # wr[s][d]
              /\ Len(wr'[s][d]) - Len(wr[s][d]) < Len(buf[s][d]))
                 => /\ fpc'[s][d] = "write" /\ fres'[s][d] = "none"
                    /\ wr'[s][d] \o buf'[s][d] = wr[s][d] \o buf[s][d]
          /\ (fres[s][d] = "none" /\ fres'[s][d] = "WriteErr")
                 => (peer[s][Dst(d)] = "reset" /\ wr'[s][d] = wr[s][d])
          /\ fres[s][d] = "WriteErr"
                 => (wr'[s][d] = wr[s][d] /\ fpc'[s][d] = "done")]_vars

\* a write call has accepted the first byte of a two-byte chunk and
\* write_all is about to write the second
PartialWriteIsContinuedWitness ==
    /\ fpc[1]["c2t"] = "write"
    /\ rcvd[1]["c2t"] = <<81, 255>>
    /\ wr[1]["c2t"] = <<81>>
    /\ buf[1]["c2t"] = <<255>>
    /\ Line("info", 1, Label("c2t"), "query") \notin log

\* the log line C13 expects for a failed direction
ErrorLine(s, d) ==
    Line("error", s, Label(d),
         IF fres[s][d] = "ReadErr" THEN "read_error"
         ELSE IF fres[s][d] = "WriteErr" THEN "write_error" ELSE "flush_error")

\* C13: every read, write and flush error of a forwarding task is logged
\* with the label of its direction.
EveryErrorLoggedWithDirection ==
    \A s \in Sessions : \A d \in Dirs :
        fres[s][d] \in {"ReadErr", "WriteErr", "FlushErr"} => ErrorLine(s, d) \in log

\* the decision table C14 states: 'Q' first whatever the encoding, else the
\* HTTP prefixes on valid UTF-8, else nothing
ClaimedAnnotations(data) ==
    IF StartsWith(data, QPat) THEN {"query"}
    ELSE IF Utf8Valid(data) /\ (\/ StartsWith(data, HttpSlash) \/ StartsWith(data, GetSp)
                                \/ StartsWith(data, PostSp))
         THEN {"http", "http_line"}
         ELSE {}

\* C14: the annotations logged when a chunk is read are those of the
\* decision table: each annotation of the table is in the log after the
\* read, and no other annotation is added by the read.
ClassificationFollowsTable ==
    [][\A s \in Sessions : \A d \in Dirs :
          rcvd'[s][d] # rcvd[s][d] =>
              \A k \in {"query", "http", "http_line"} :
                  /\ k \in ClaimedAnnotations(buf'[s][d])
                         => Line("info", s, Label(d), k) \in log'
                  /\ (k \notin ClaimedAnnotations(buf'[s][d])
                      /\ Line("info", s, Label(d), k) \in log')
                         => Line("info", s, Label(d), k) \in log]_vars

\* C15: when the listen address equals the target address the program never
\* gets past main: the listener is not bound, no inbound connection is
\* accepted, no connect is attempted and no forwarding task is started.
DistinctEndpointPrecondition ==
    env.listen_addr = env.target_addr =>
        /\ lpc \in {"main", "exit1"}
        /\ \A s \in Sessions :
              /\ inbound[s] = "none" /\ hpc[s] = "idle" /\ attempts[s] = 0
              /\ \A d \in Dirs : fpc[s][d] = "unstarted"

\* the program has exited with status 1 on equal addresses, the error logged
DistinctEndpointPreconditionWitness ==
    /\ env.listen_addr = env.target_addr
    /\ lpc = "exit1"
    /\ Line("error", 0, "main", "same_address") \in log

\* C16: a forwarding task exists only in a session whose inbound connection
\* was accepted, whose connect succeeded and whose two clones succeeded (a
\* task is started with two handles open on each connection); when the
\* connect or a clone fails no task is ever started and every connection
\* obtained so far is closed.
PairCreatedAtomically ==
    /\ [](\A s \in Sessions :
            /\ (\E d \in Dirs : fpc[s][d] # "unstarted")
                   => /\ inbound[s] = "accepted" /\ TargetConnected(s)
                      /\ hpc[s] \in {"spawn2", "join1", "join2", "returned"}
                      /\ hres[s].from \notin {"connect", "clone_client", "clone_target"}
            /\ hres[s].from \in {"connect", "clone_client", "clone_target"}
                   => /\ \A d \in Dirs : fpc[s][d] = "unstarted"
                      /\ \A c \in Conns : handles[s][c] = 0
                      /\ Closed(s, "client")
                      /\ hres[s].from # "connect" => Closed(s, "target"))
    /\ [][\A s \in Sessions :
            (fpc[s]["c2t"] = "unstarted" /\ fpc'[s]["c2t"] # "unstarted")
                => \A c \in Conns : handles[s][c] = 2]_vars

\* the second clone failed after a successful connect: no task, and both
\* connections closed although the client had sent its data
PairCreatedAtomicallyWitness ==
    /\ hres[1] = ErrRes("clone_target", "CloneErr")
    /\ Closed(1, "client") /\ Closed(1, "target")
    /\ Len(sent[1]["c2t"]) = MaxData

\* C18: a read that fails ends the direction with that failure, logged with
\* the direction label, without a write or flush; once a direction has
\* ended on a read error it reads, writes and flushes nothing more.
ReadErrorTerminates ==
    [][\A s \in Sessions : \A d \in Dirs :
          /\ (fpc[s][d] = "read" /\ peer[s][Src(d)] = "reset" /\ fpc'[s][d] # "read")
                 => /\ fpc'[s][d] = "done" /\ fres'[s][d] = "ReadErr"
                    /\ Line("error", s, Label(d), "read_error") \in log'
                    /\ wr'[s][d] = wr[s][d] /\ rcvd'[s][d] = rcvd[s][d]
          /\ fres[s][d] = "ReadErr"
                 => /\ fpc'[s][d] = "done" /\ fres'[s][d] = "ReadErr"
                    /\ rcvd'[s][d] = rcvd[s][d] /\ wr'[s][d] = wr[s][d]
                    /\ buf'[s][d] = buf[s][d]]_vars

\* Target -> Client ended on a read error after relaying data, with bytes
\* of the target left unread
ReadErrorTerminatesWitness ==
    /\ fres[1]["t2c"] = "ReadErr"
    /\ wr[1]["t2c"] # <<>>
    /\ Avail(1, "t2c") > 0
    /\ Line("error", 1, Label("t2c"), "read_error") \in log

\* C19: once both tasks of a session are started, each connection has one
\* open handle per running task: while a task runs neither connection is
\* closed, and when both have exited both connections are closed.
ConnectionLifetime ==
    \A s \in Sessions :
        (\A d \in Dirs : fpc[s][d] # "unstarted") =>
            /\ \A c \in Conns : handles[s][c] = Cardinality({d \in Dirs : Running(s, d)})
            /\ (\E d \in Dirs : Running(s, d)) => \A c \in Conns : ~Closed(s, c)
            /\ (\A d \in Dirs : fpc[s][d] = "done") => \A c \in Conns : Closed(s, c)

\* the handler returned early on the failure of Client -> Target, and the
\* connections were closed only when Target -> Client had exited too
ConnectionLifetimeWitness ==
    /\ hres[1] = ErrRes("c2t", "ReadErr")
    /\ firstFail[1] = "c2t"
    /\ fres[1]["t2c"] = "WriteErr"
    /\ Closed(1, "client") /\ Closed(1, "target")

\* C20: in a session whose pair is established, once the client and the
\* target have each closed or reset their connection, both forwarding
\* tasks eventually exit and handle_connection eventually returns.
SessionTerminatesWhenBothPeersClose ==
    \A s \in Sessions :
        (/\ inbound[s] = "accepted" /\ TargetConnected(s)
         /\ \A c \in Conns : peer[s][c] \in {"fin", "reset"})
            ~> (/\ hpc[s] = "returned"
                /\ \A d \in Dirs : fpc[s][d] \in {"unstarted", "done"}
                /\ (hres[s].from \notin {"clone_client", "clone_target"}
                       => \A d \in Dirs : fpc[s][d] = "done"))

\* both peers half-closed after sending, both directions relayed the data
\* and ended on end-of-stream, and the handler returned Ok
SessionTerminatesWitness ==
    /\ \A c \in Conns : peer[1][c] = "fin"
    /\ \A d \in Dirs : fres[1][d] = "Ok" /\ Len(wr[1][d]) = MaxDataListen
    /\ hres[1].kind = "Ok"


\* C17: in bridge mode, from the moment both endpoints are reachable for
\* good the loop eventually relays a session, however many dial rounds
\* failed before; the loop always has a next step unless it is blocked on
\* a session; a round in which a dial failed leaves no connection behind,
\* and the round after the backoff dials both endpoints again.
BridgeRetryConverges ==
    /\ []([](\A e \in Ends : bridge.up[e]) => <>(bridge.pc = "relaying"))
    /\ [](bridge.pc # "relaying" => ENABLED BridgeLoop)
    /\ [](bridge.pc = "backoff" => bridge.conn = NoConn)
    /\ [][(bridge.pc = "backoff" /\ bridge'.pc # "backoff")
             => (bridge'.pc = "dialing" /\ bridge'.conn = NoConn)]_vars
    /\ [](bridge.pc \in {"paired", "relaying"} => \A e \in Ends : bridge.conn[e] = "open")

\* a session is relayed after MaxFails consecutive failed dial rounds
BridgeRetryConvergesWitness ==
    /\ bridge.pc = "relaying"
    /\ bridge.fails = MaxFails

=============================================================================
